---- MODULE Spec2Model ----
(***************************************************************************)
(* A model of wildfire_dnbr.py: a single top-to-bottom script that         *)
(* connects to a remote geospatial service, queries the area of a bounding *)
(* box and two image counts, builds a dNBR raster, classifies it into burn *)
(* severity classes and writes two HTML files.                             *)
(*                                                                         *)
(* dNBR values and the classification thresholds are written in units of   *)
(* 1/10000 (0.05 is 500, 0.659 is 6590, 0.66 is 6600).  Python floats are   *)
(* IEEE-754 binary64 values, modelled as a mantissa of MantBits bits (most  *)
(* significant first) and the exponent of the leading bit.                 *)
(***************************************************************************)
EXTENDS Integers, Sequences, FiniteSets

VARIABLES pc, config, connected, area_sqm, area_sqkm, area_ha,
          pre_count, post_count, dnbr, severity, files, printed

vars == <<pc, config, connected, area_sqm, area_sqkm, area_ha,
          pre_count, post_count, dnbr, severity, files, printed>>

\* Variables the script has not assigned yet: a float, a count, an image.
NoFloat == [exp |-> 0, mant |-> <<>>]
NoCount == 0 - 1
NoImage == <<>>

(***************************************************************************)
(* Bounds of the model.                                                    *)
(***************************************************************************)
\* Pixels of the raster when the classification is checked on its own.
NumPixels == 2
\* Pixels of the raster in a whole run.
RunPixels == 1
\* The largest image count a collection query returns.
MaxCount == 1
\* Area samples: 0..MaxAreaStep quarters of a square metre, and as many from
\* BoxArea up.
MaxAreaStep == 60
\* Area samples a whole run draws from.
RunAreaStep == 0
\* About the area, in square metres, of a 0.2 x 0.2 degree box at 34 N.
BoxArea == 408000000
\* Long division and multiplication take this many bits at a time (every
\* intermediate value stays below 2^31).
ChunkBits == 10

(***************************************************************************)
(* Binary floating point (Python float).                                   *)
(***************************************************************************)
MantBits == 53

Zeros(n) == [i \in 1..n |-> 0]

RECURSIVE Bits(_)
\* The binary digits of a natural number, most significant first.
Bits(n) == IF n = 0 THEN <<>> ELSE Append(Bits(n \div 2), n % 2)

\* s without its leading zeros.
StripZeros(s) ==
    LET ones == {i \in 1..Len(s) : s[i] = 1}
    IN  IF ones = {} THEN <<>>
        ELSE SubSeq(s, CHOOSE i \in ones : \A j \in ones : i <= j, Len(s))

HasOne(s) == \E i \in 1..Len(s) : s[i] = 1

FloatZero == [exp |-> 0, mant |-> Zeros(MantBits)]

\* s + 1 on a bit string of fixed length; the carry out of the top bit is lost.
Increment(s) ==
    LET zeros == {i \in 1..Len(s) : s[i] = 0}
        last  == CHOOSE i \in zeros : \A j \in zeros : j <= i
    IN  IF zeros = {} THEN Zeros(Len(s))
        ELSE [i \in 1..Len(s) |-> IF i < last THEN s[i]
                                  ELSE IF i = last THEN 1 ELSE 0]

\* Round to nearest, ties to even: sig is the significand without leading
\* zeros, e the exponent of its leading bit, sticky whether bits below sig
\* were lost.
RoundNearestEven(sig, e, sticky) ==
    IF sig = <<>> THEN FloatZero
    ELSE IF Len(sig) <= MantBits
         THEN [exp |-> e, mant |-> sig \o Zeros(MantBits - Len(sig))]
    ELSE LET m     == SubSeq(sig, 1, MantBits)
             guard == sig[MantBits + 1]
             rest  == sticky \/ HasOne(SubSeq(sig, MantBits + 2, Len(sig)))
             up    == guard = 1 /\ (rest \/ m[MantBits] = 1)
         IN  IF ~up THEN [exp |-> e, mant |-> m]
             ELSE IF HasOne(Increment(m))
                  THEN [exp |-> e, mant |-> Increment(m)]
                  ELSE [exp |-> e + 1, mant |-> <<1>> \o Zeros(MantBits - 1)]

\* float(n) of an int: exact below 2^MantBits.
IntToFloat(n) == RoundNearestEven(Bits(n), Len(Bits(n)) - 1, FALSE)

RECURSIVE BitsValue(_)
\* The number a bit string denotes.
BitsValue(s) ==
    IF s = <<>> THEN 0 ELSE 2 * BitsValue(SubSeq(s, 1, Len(s) - 1)) + s[Len(s)]

\* n in exactly w bits.
Pad(n, w) == Zeros(w - Len(Bits(n))) \o Bits(n)

\* The least number of bits >= least that fills len up to whole chunks.
FillTo(len, least) ==
    least + ((ChunkBits - ((len + least) % ChunkBits)) % ChunkBits)

RECURSIVE LongDiv(_, _, _, _)
\* Schoolbook division of the bit string s (whole chunks) by d < 2^20:
\* quotient bits and remainder.
LongDiv(s, d, r, q) ==
    IF s = <<>> THEN [quot |-> q, rem |-> r]
    ELSE LET t == r * 2^ChunkBits + BitsValue(SubSeq(s, 1, ChunkBits))
         IN  LongDiv(SubSeq(s, ChunkBits + 1, Len(s)), d, t % d,
                     q \o Pad(t \div d, ChunkBits))

\* x / d for a float x >= 0 and an int d > 0, correctly rounded.
FloatDivInt(x, d) ==
    IF x = FloatZero THEN FloatZero
    ELSE LET k   == FillTo(MantBits, Len(Bits(d)) + 2)
             res == LongDiv(x.mant \o Zeros(k), d, 0, <<>>)
             sig == StripZeros(res.quot)
         IN  RoundNearestEven(sig, Len(sig) - 1 + x.exp - (MantBits - 1) - k,
                              res.rem # 0)

RECURSIVE MulCarry(_, _, _, _)
\* s * n on a bit string (whole chunks), from the least significant chunk,
\* carry c.
MulCarry(s, n, c, acc) ==
    IF s = <<>> THEN Bits(c) \o acc
    ELSE LET t == BitsValue(SubSeq(s, Len(s) - ChunkBits + 1, Len(s))) * n + c
         IN  MulCarry(SubSeq(s, 1, Len(s) - ChunkBits), n, t \div 2^ChunkBits,
                      Pad(t % 2^ChunkBits, ChunkBits) \o acc)

(***************************************************************************)
(* Text.  A string the script builds is a sequence of pieces: the literal  *)
(* parts of the f-string and the formatted values between them.            *)
(***************************************************************************)
Digit(d) == <<"0", "1", "2", "3", "4", "5", "6", "7", "8", "9">>[d + 1]

RECURSIVE DecimalDigits(_)
\* str(n) of a natural number, one piece per digit.
DecimalDigits(n) ==
    IF n < 10 THEN <<Digit(n)>>
    ELSE Append(DecimalDigits(n \div 10), Digit(n % 10))

\* round(x * 100) of the exact value of the float x, ties to even, for
\* 0 <= x < 2^31 / 100.
Hundredths(x) ==
    IF x = FloatZero THEN 0
    ELSE LET prod  == MulCarry(Zeros(FillTo(MantBits, 0)) \o x.mant, 100, 0, <<>>)
             shift == (MantBits - 1) - x.exp
             p     == IF Len(prod) > shift THEN prod
                      ELSE Zeros(shift + 1 - Len(prod)) \o prod
             whole == BitsValue(StripZeros(SubSeq(p, 1, Len(p) - shift)))
             guard == p[Len(p) - shift + 1]
             rest  == HasOne(SubSeq(p, Len(p) - shift + 2, Len(p)))
         IN  IF guard = 1 /\ (rest \/ whole % 2 = 1) THEN whole + 1 ELSE whole

\* f"{x:.2f}"
Format2f(x) ==
    LET h == Hundredths(x)
    IN  DecimalDigits(h \div 100) \o <<".", Digit((h % 100) \div 10), Digit(h % 10)>>

(***************************************************************************)
(* Configuration: the module-level constants, edited in the source.        *)
(***************************************************************************)
SourceConfig ==
    [REGION_NAME     |-> "Camarillo",
     BBOX            |-> "[-119.1, 34.2, -118.9, 34.4]",
     PRE_FIRE_START  |-> "2024-10-01",
     PRE_FIRE_DATE   |-> "2024-11-06",
     POST_FIRE_START |-> "2024-12-01",
     POST_FIRE_DATE  |-> "2024-12-31"]

\* The source's configuration and one edited by a user.
Configs ==
    {SourceConfig,
     [REGION_NAME     |-> "Paradise",
      BBOX            |-> "[-121.7, 39.7, -121.5, 39.9]",
      PRE_FIRE_START  |-> "2018-09-01",
      PRE_FIRE_DATE   |-> "2018-11-07",
      POST_FIRE_START |-> "2018-11-26",
      POST_FIRE_DATE  |-> "2018-12-31"]}

(***************************************************************************)
(* Severity classification, pixel by pixel.                                *)
(***************************************************************************)
\* 0.05, 0.27, 0.439, 0.659 and 0.66 in units of 1/10000.
LowMin == 500
ModLowMin == 2700
ModHighMin == 4390
ModHighMax == 6590
HighMin == 6600

Thresholds == {LowMin, ModLowMin, ModHighMin, ModHighMax, HighMin}

\* dNBR values the remote service may produce for a pixel: the range ends,
\* one value inside every class, every threshold with its two neighbours,
\* and the middle of the gap between 0.659 and 0.66.
DnbrValues ==
    {-20000, 0, 1500, 3500, 5500, 6595, 20000}
        \cup {t + o : t \in Thresholds, o \in {-1, 0, 1}}

\* The rasters of n pixels.
DnbrRasters(n) == [1..n -> DnbrValues]

\* Image.lt, Image.gt, Image.And, Image.multiply and Image.where on one pixel.
Lt(a, b) == IF a < b THEN 1 ELSE 0

\* Image.gte in place of Image.gt.
GtOrEqual(a, b) == IF a >= b THEN 1 ELSE 0
Gt(a, b) == IF a > b THEN 1 ELSE 0

And(a, b) == IF a # 0 /\ b # 0 THEN 1 ELSE 0

Multiply(a, k) == a * k

Where(img, test, value) == IF test # 0 THEN value ELSE img

\* dnbr.lt(0.05) without the multiply(0).
BaseImageNoMultiply(d) == Lt(d, LowMin)
\* dnbr.lt(0.05).multiply(0)
BaseImage(d) == Multiply(Lt(d, LowMin), 0)

\* The i-th where-replacement's test, with class 3 reaching down to 0.27.
WhereTestOverlapping(i, d) ==
    CASE i = 1 -> And(Gt(d, LowMin), Lt(d, ModLowMin))
      [] i = 2 -> And(Gt(d, ModLowMin), Lt(d, ModHighMin))
      [] i = 3 -> And(Gt(d, ModLowMin), Lt(d, ModHighMax))
      [] i = 4 -> Gt(d, HighMin)
\* The test of the i-th where-replacement of the chain.
WhereTest(i, d) ==
    CASE i = 1 -> And(Gt(d, LowMin), Lt(d, ModLowMin))
      [] i = 2 -> And(Gt(d, ModLowMin), Lt(d, ModHighMin))
      [] i = 3 -> And(Gt(d, ModHighMin), Lt(d, ModHighMax))
      [] i = 4 -> Gt(d, HighMin)

\* The value the i-th where-replacement writes.
WhereValue(i) == i

RECURSIVE ApplyWheres(_, _, _)
\* img.where(test, value) for the replacements named in order, left to right.
ApplyWheres(img, d, order) ==
    IF order = <<>> THEN img
    ELSE ApplyWheres(Where(img, WhereTest(Head(order), d), WhereValue(Head(order))),
                     d, Tail(order))

\* The order of the chain in the source.
ChainOrder == <<1, 2, 3, 4>>

SeverityPixel(d) == ApplyWheres(BaseImage(d), d, ChainOrder)

SeverityImage(img) == [p \in DOMAIN img |-> SeverityPixel(img[p])]

(***************************************************************************)
(* What the script prints and writes.                                      *)
(***************************************************************************)
HeaderLines(cfg) ==
    <<"Study Area: ", cfg.REGION_NAME, "Coordinates: ", cfg.BBOX,
      "Date Range: ", cfg.PRE_FIRE_DATE, " to ", cfg.POST_FIRE_DATE>>

ConnectedLines == <<"Google Earth Engine connected Successfully">>

ConnectFailedLines ==
    <<"Google Earth Engine connection failed", "Run: earthengine authenticate">>

AreaLines(sqkm, ha) ==
    <<"Area: ">> \o Format2f(sqkm) \o <<" km2", "Area: ">> \o Format2f(ha)
        \o <<" ha", "Loading Sentinel-2 Data">>

FoundLines(pre, post) ==
    <<"Found ">> \o DecimalDigits(pre) \o <<", ">> \o DecimalDigits(post)
        \o <<" Sentinel-2 images">>

HintLines ==
    <<" No images found! Try:", "  1. Expanding date range",
      "  2. Increasing cloud cover threshold", "  3. Checking coordinates">>

ClassifyLines ==
    <<"Created cloud-free composite image for pre-fire images)",
      "STEP 2: Calculating Spectral Indices", "NBR calculated",
      "STEP 4: Creating Interactive Map">>

MapFileName(cfg) == <<"map_", cfg.REGION_NAME, ".html">>

\* map_path
MapPath(cfg) == <<"./outputs/">> \o MapFileName(cfg)

DashboardPath(cfg) ==
    <<"./outputs/", "wildfire_dashboard_", cfg.REGION_NAME, ".html">>

MapLines(cfg) ==
    <<"Interactive map saved: ">> \o MapPath(cfg)
        \o <<"STEP 7: Creating Interactive HTML Dashboard">>

DashboardLines(cfg) == <<"Interactive dashboard saved: ">> \o DashboardPath(cfg)

\* What Map.to_html writes: the basemap, the four layers and the legend.
MapHtml ==
    <<"HYBRID", "PREFIRE_NBR", "POSTFIRE_NBR", "DNBR", "SEVERITY",
      "Burn Severity (dNBR)">>

TitleOpen == "<title>"
TitleClose == "</title>"
IframeOpen == "<iframe id=\"mapFrame\" src=\""
IframeClose == "\"></iframe>"

\* The dashboard with the start dates of the two windows in the period line.
DashboardHtmlStartDates(cfg, sqkm, ha, now) ==
    <<TitleOpen, "Wildfire Dashboard - ", cfg.REGION_NAME, TitleClose,
      "Region: ", cfg.REGION_NAME,
      "Analysis Period: ", cfg.PRE_FIRE_START, " to ", cfg.POST_FIRE_START,
      "Total Study Area: ">> \o Format2f(sqkm) \o <<" km2 (">> \o Format2f(ha)
        \o <<" hectares)", "Generated: ", now, IframeOpen>> \o MapFileName(cfg)
        \o <<IframeClose, "document.getElementById('mapFrame').src = '">>
        \o MapFileName(cfg)
        \o <<"';", "console.log('Wildfire Dashboard loaded for ",
             cfg.REGION_NAME, "');">>
\* dashboard_html: the f-string's literal parts that carry a value, and the
\* values, in the order of the template.
DashboardHtml(cfg, sqkm, ha, now) ==
    <<TitleOpen, "Wildfire Dashboard - ", cfg.REGION_NAME, TitleClose,
      "Region: ", cfg.REGION_NAME,
      "Analysis Period: ", cfg.PRE_FIRE_DATE, " to ", cfg.POST_FIRE_DATE,
      "Total Study Area: ">> \o Format2f(sqkm) \o <<" km2 (">> \o Format2f(ha)
        \o <<" hectares)", "Generated: ", now, IframeOpen>> \o MapFileName(cfg)
        \o <<IframeClose, "document.getElementById('mapFrame').src = '">>
        \o MapFileName(cfg)
        \o <<"';", "console.log('Wildfire Dashboard loaded for ",
             cfg.REGION_NAME, "');">>

\* datetime.now().strftime('%Y-%m-%d %H:%M:%S')
Timestamps == {"2025-01-15 09:30:00", "2025-01-15 09:30:01"}

\* The paths written so far.
Written == {f.path : f \in files}

(***************************************************************************)
(* The script, top to bottom.  A step ends where the next call to the      *)
(* remote service or the file system begins.                               *)
(***************************************************************************)
\* connected: whether ee.Initialize returned ("yes"), raised ("no") or has not
\* been called ("unset").
Init ==
    /\ pc = "connect"
    /\ config \in Configs
    /\ connected = "unset"
    /\ area_sqm = NoFloat /\ area_sqkm = NoFloat /\ area_ha = NoFloat
    /\ pre_count = NoCount /\ post_count = NoCount
    /\ dnbr = NoImage /\ severity = NoImage
    /\ files = {}
    /\ printed = <<>>

\* Lines 19-26: ee.Initialize returns.
ConnectOk ==
    /\ pc = "connect"
    /\ connected' = "yes"
    /\ printed' = printed \o HeaderLines(config) \o ConnectedLines
    /\ pc' = "area"
    /\ UNCHANGED <<config, area_sqm, area_sqkm, area_ha, pre_count, post_count,
                   dnbr, severity, files>>

\* ee.Initialize raises and nothing catches it.
ConnectFailedUncaught ==
    /\ pc = "connect"
    /\ connected' = "no"
    /\ printed' = printed \o HeaderLines(config)
    /\ pc' = "crashed"
    /\ UNCHANGED <<config, area_sqm, area_sqkm, area_ha, pre_count, post_count,
                   dnbr, severity, files>>
\* Lines 19-29: ee.Initialize raises, the bare except prints and goes on.
ConnectFailed ==
    /\ pc = "connect"
    /\ connected' = "no"
    /\ printed' = printed \o HeaderLines(config) \o ConnectFailedLines
    /\ pc' = "area"
    /\ UNCHANGED <<config, area_sqm, area_sqkm, area_ha, pre_count, post_count,
                   dnbr, severity, files>>

\* x / 4, which is exact.
Quarter(x) == IF x = FloatZero THEN x ELSE [x EXCEPT !.exp = @ - 2]

\* Areas the query may return: floats, in steps of a quarter square metre.
AreaSamples(step) ==
    {Quarter(IntToFloat(q)) : q \in (0..step) \cup {4 * BoxArea + i : i \in 0..step}}

\* area_sqm / 1_000
AreaSqkmThousand(a) == FloatDivInt(a, 1000)
\* area_sqm / 1_000_000
AreaSqkm(a) == FloatDivInt(a, 1000000)

\* area_sqm / 10000
AreaHa(a) == FloatDivInt(a, 10000)

\* Lines 32-54: the area query returns a square metres.
AreaQuery(samples) ==
    /\ pc = "area"
    /\ \E a \in samples :
          /\ area_sqm' = a
          /\ area_sqkm' = AreaSqkm(a)
          /\ area_ha' = AreaHa(a)
    /\ printed' = printed \o AreaLines(area_sqkm', area_ha')
    /\ pc' = "count_pre"
    /\ UNCHANGED <<config, connected, pre_count, post_count, dnbr, severity, files>>

\* Line 58: prefire_images.size().getInfo()
CountPre ==
    /\ pc = "count_pre"
    /\ pre_count' \in 0..MaxCount
    /\ pc' = "count_post"
    /\ UNCHANGED <<config, connected, area_sqm, area_sqkm, area_ha, post_count,
                   dnbr, severity, files, printed>>

\* Lines 59-60: postfire_images.size().getInfo()
CountPost ==
    /\ pc = "count_post"
    /\ post_count' \in 0..MaxCount
    /\ printed' = printed \o FoundLines(pre_count, post_count')
    /\ pc' = "check"
    /\ UNCHANGED <<config, connected, area_sqm, area_sqkm, area_ha, pre_count,
                   dnbr, severity, files>>

\* The test with "and" in place of "or".
NoImagesBoth(pre, post) == pre = 0 /\ post = 0
\* Line 63
NoImages(pre, post) == pre = 0 \/ post = 0

\* Lines 63-68: no images, the hints and exit().
ExitNoImages ==
    /\ pc = "check"
    /\ NoImages(pre_count, post_count)
    /\ printed' = printed \o HintLines
    /\ pc' = "exited"
    /\ UNCHANGED <<config, connected, area_sqm, area_sqkm, area_ha, pre_count,
                   post_count, dnbr, severity, files>>

\* Line 63, the test is false.
ImagesFound ==
    /\ pc = "check"
    /\ ~NoImages(pre_count, post_count)
    /\ pc' = "classify"
    /\ UNCHANGED <<config, connected, area_sqm, area_sqkm, area_ha, pre_count,
                   post_count, dnbr, severity, files, printed>>

\* Lines 71-145: the composites, NBR, dNBR and the severity image; the pixel
\* values are the remote service's.
Classify(rasters) ==
    /\ pc = "classify"
    /\ dnbr' \in rasters
    /\ severity' = SeverityImage(dnbr')
    /\ printed' = printed \o ClassifyLines
    /\ pc' = "map"
    /\ UNCHANGED <<config, connected, area_sqm, area_sqkm, area_ha, pre_count,
                   post_count, files>>

\* The map step without the file.
WriteMapSkipped ==
    /\ pc = "map"
    /\ printed' = printed \o MapLines(config)
    /\ pc' = "dashboard"
    /\ UNCHANGED <<config, connected, area_sqm, area_sqkm, area_ha, pre_count,
                   post_count, dnbr, severity, files>>
\* Lines 146-163: the layers, the legend and Map.to_html(map_path).
WriteMap ==
    /\ pc = "map"
    /\ files' = files \cup {[path |-> MapPath(config), content |-> MapHtml]}
    /\ printed' = printed \o MapLines(config)
    /\ pc' = "dashboard"
    /\ UNCHANGED <<config, connected, area_sqm, area_sqkm, area_ha, pre_count,
                   post_count, dnbr, severity>>

\* Lines 166-387: the dashboard page.
WriteDashboard ==
    /\ pc = "dashboard"
    /\ \E now \in Timestamps :
          files' = files \cup
              {[path    |-> DashboardPath(config),
                content |-> DashboardHtml(config, area_sqkm, area_ha, now)]}
    /\ printed' = printed \o DashboardLines(config)
    /\ pc' = "done"
    /\ UNCHANGED <<config, connected, area_sqm, area_sqkm, area_ha, pre_count,
                   post_count, dnbr, severity>>

\* The steps that call the remote service or write a file.
FallibleSteps == {"area", "count_pre", "count_post", "map", "dashboard"}

\* Such a call raises; nothing catches it and the script ends.
Raises ==
    /\ pc \in FallibleSteps
    /\ pc' = "crashed"
    /\ UNCHANGED <<config, connected, area_sqm, area_sqkm, area_ha, pre_count,
                   post_count, dnbr, severity, files, printed>>

Next ==
    \/ ConnectOk
    \/ ConnectFailed
    \/ AreaQuery(AreaSamples(RunAreaStep))
    \/ CountPre
    \/ CountPost
    \/ ExitNoImages
    \/ ImagesFound
    \/ Classify(DnbrRasters(RunPixels))
    \/ WriteMap
    \/ WriteDashboard
    \/ Raises

Spec == Init /\ [][Next]_vars

(***************************************************************************)
(* The area computation on its own, over more areas.                       *)
(***************************************************************************)
InitArea ==
    /\ pc = "area"
    /\ config = SourceConfig
    /\ connected = "yes"
    /\ area_sqm = NoFloat /\ area_sqkm = NoFloat /\ area_ha = NoFloat
    /\ pre_count = NoCount /\ post_count = NoCount
    /\ dnbr = NoImage /\ severity = NoImage
    /\ files = {}
    /\ printed = HeaderLines(config) \o ConnectedLines

NextArea == AreaQuery(AreaSamples(MaxAreaStep))

SpecArea == InitArea /\ [][NextArea]_vars

(***************************************************************************)
(* The classification on its own, over larger rasters.                     *)
(***************************************************************************)
InitSeverity ==
    /\ pc = "classify"
    /\ config = SourceConfig
    /\ connected = "yes"
    /\ area_sqm = IntToFloat(BoxArea)
    /\ area_sqkm = AreaSqkm(area_sqm)
    /\ area_ha = AreaHa(area_sqm)
    /\ pre_count = 1 /\ post_count = 1
    /\ dnbr = NoImage /\ severity = NoImage
    /\ files = {}
    /\ printed = HeaderLines(config) \o ConnectedLines
                    \o AreaLines(area_sqkm, area_ha) \o FoundLines(1, 1)

NextSeverity == Classify(DnbrRasters(NumPixels))

SpecSeverity == InitSeverity /\ [][NextSeverity]_vars

(***************************************************************************)
(* Properties.                                                             *)
(***************************************************************************)
Range(s) == {s[i] : i \in 1..Len(s)}

\* The pieces of s after the first piece open and before the next piece close.
Between(s, open, close) ==
    LET i == CHOOSE k \in 1..Len(s) :
                 s[k] = open /\ \A m \in 1..(k - 1) : s[m] # open
        j == CHOOSE k \in (i + 1)..Len(s) :
                 s[k] = close /\ \A m \in (i + 1)..(k - 1) : s[m] # close
    IN  SubSeq(s, i + 1, j - 1)

\* x * n for a float x >= 0 and an int n > 0, correctly rounded.
FloatMulInt(x, n) ==
    IF x = FloatZero THEN FloatZero
    ELSE LET s   == Zeros(FillTo(MantBits, 0)) \o x.mant
             sig == StripZeros(MulCarry(s, n, 0, <<>>))
         IN  RoundNearestEven(sig, Len(sig) - 1 + x.exp - (MantBits - 1), FALSE)

\* The next float above x (x > 0).
FloatSucc(x) ==
    IF HasOne(Increment(x.mant))
    THEN [exp |-> x.exp, mant |-> Increment(x.mant)]
    ELSE [exp |-> x.exp + 1, mant |-> <<1>> \o Zeros(MantBits - 1)]

Classified == severity # NoImage

\* C1: every pixel below 0.05 has class 0, every pixel strictly inside
\* (0.05, 0.27) class 1, inside (0.27, 0.439) class 2, inside (0.439, 0.659)
\* class 3, and every pixel above 0.66 class 4.
C1_ClassOfInterval ==
    Classified =>
        \A p \in DOMAIN dnbr :
            /\ dnbr[p] < LowMin => severity[p] = 0
            /\ (dnbr[p] > LowMin /\ dnbr[p] < ModLowMin) => severity[p] = 1
            /\ (dnbr[p] > ModLowMin /\ dnbr[p] < ModHighMin) => severity[p] = 2
            /\ (dnbr[p] > ModHighMin /\ dnbr[p] < ModHighMax) => severity[p] = 3
            /\ dnbr[p] > HighMin => severity[p] = 4

\* A classified raster with an unburned pixel and a moderate-high pixel.
C1_Witness ==
    /\ Classified
    /\ dnbr[1] < LowMin
    /\ dnbr[2] > ModHighMin /\ dnbr[2] < ModHighMax

\* A value on a boundary (0.05, 0.27, 0.439) or in the gap [0.659, 0.66].
OnBoundary(d) ==
    \/ d \in {LowMin, ModLowMin, ModHighMin}
    \/ (d >= ModHighMax /\ d <= HighMin)

\* C2 as stated: a pixel on a boundary or in the gap has none of the classes
\* 0..4.
C2_BoundaryUnclassified ==
    Classified =>
        \A p \in DOMAIN dnbr : OnBoundary(dnbr[p]) => severity[p] \notin 0..4

\* C2, amended: a pixel on a boundary or in the gap matches no
\* where-replacement and keeps the base value, class 0.
C2_BoundaryIsClassZero ==
    Classified =>
        \A p \in DOMAIN dnbr : OnBoundary(dnbr[p]) => severity[p] = 0

\* A classified raster with a pixel at 0.05 and a pixel inside the gap.
C2_Witness ==
    /\ Classified
    /\ dnbr[1] = LowMin
    /\ dnbr[2] > ModHighMax /\ dnbr[2] < HighMin

\* The four lines of the hints are the last lines printed.
HintsPrinted ==
    /\ Len(printed) >= Len(HintLines)
    /\ SubSeq(printed, Len(printed) - Len(HintLines) + 1, Len(printed)) = HintLines

\* C3: once a count of zero images is known, the run writes no file and
\* builds no dNBR or severity image; it stops at exit() with the hints
\* printed, and nothing follows.
C3_NoImagesHalts ==
    (pre_count = 0 \/ post_count = 0) =>
        /\ files = {}
        /\ dnbr = NoImage /\ severity = NoImage
        /\ pc \in {"count_post", "check", "exited", "crashed"}
        /\ pc = "exited" => (HintsPrinted /\ ~ENABLED Next)

\* The run has exited with the post-fire window empty.
C3_Witness == pc = "exited" /\ pre_count > 0 /\ post_count = 0

\* C4: the connection step is always followed by the area step, with the
\* two lines of the re-authentication message printed last when the
\* connection failed; the run never comes back to the connection step.
C4_ConnectFailureContinues ==
    [][/\ pc = "connect" =>
              /\ pc' = "area"
              /\ connected' = "no" =>
                    SubSeq(printed', Len(printed') - 1, Len(printed'))
                        = ConnectFailedLines
       /\ pc # "connect" => pc' # "connect"]_vars

\* The connection failed and the run has issued the area query.
C4_Witness == connected = "no" /\ pc = "count_pre"

\* The dashboard files written.
Dashboards == {f \in files : f.path = DashboardPath(config)}

\* C5: a written dashboard has the region name in its title, map_<region>.html
\* as its iframe src, and both PRE_FIRE_DATE and POST_FIRE_DATE in its text.
C5_DashboardEmbedsConfig ==
    \A f \in Dashboards :
        /\ config.REGION_NAME \in Range(Between(f.content, TitleOpen, TitleClose))
        /\ Between(f.content, IframeOpen, IframeClose)
              = <<"map_", config.REGION_NAME, ".html">>
        /\ config.PRE_FIRE_DATE \in Range(f.content)
        /\ config.POST_FIRE_DATE \in Range(f.content)

\* The dashboard of a configuration other than the source's is written.
C5_Witness == Dashboards # {} /\ config # SourceConfig /\ pc = "done"

AreaComputed == area_ha # NoFloat

\* C6 as stated: the hectare figure is the square-kilometre figure times 100.
C6_HaIsSqkmTimes100 ==
    AreaComputed => area_ha = FloatMulInt(area_sqkm, 100)

\* C6, amended: the hectare figure and the square-kilometre figure times 100
\* are the same double or two adjacent doubles.
C6_HaWithinOneUlp ==
    AreaComputed =>
        LET h == FloatMulInt(area_sqkm, 100)
        IN  \/ area_ha = h
            \/ (area_ha # FloatZero /\ FloatSucc(area_ha) = h)
            \/ (h # FloatZero /\ FloatSucc(h) = area_ha)

\* An area near that of the box for which the two figures differ.
C6_Witness ==
    /\ AreaComputed
    /\ area_sqm.exp = IntToFloat(BoxArea).exp
    /\ area_ha # FloatMulInt(area_sqkm, 100)

\* C8 as stated: of two pixels, the one with the larger dNBR has the larger
\* or the same class.
C8_Ordinal ==
    Classified =>
        \A p, q \in DOMAIN dnbr :
            dnbr[p] <= dnbr[q] => severity[p] <= severity[q]

\* The orders in which the four where-replacements can be applied.
Orders == {o \in [1..4 -> 1..4] : \A i, j \in 1..4 : o[i] = o[j] => i = j}

\* C9: every pixel has a class in 0..4, at most one where-test holds for it,
\* and the where-replacements applied in any order give the class it has.
C9_TotalAndOrderFree ==
    Classified =>
        \A p \in DOMAIN dnbr :
            /\ severity[p] \in 0..4
            /\ \A i, j \in 1..4 :
                  (WhereTest(i, dnbr[p]) # 0 /\ WhereTest(j, dnbr[p]) # 0) => i = j
            /\ \A o \in Orders :
                  ApplyWheres(BaseImage(dnbr[p]), dnbr[p], o) = severity[p]

\* A classified raster with a pixel on a boundary and a moderate-low pixel.
C9_Witness ==
    /\ Classified
    /\ dnbr[1] = ModLowMin
    /\ severity[2] = 2

\* The file an href names, seen from the directory of the page at path.
Resolve(path, href) == <<Head(path)>> \o href

\* C10: when the dashboard file exists the map file exists, and the iframe
\* src of the dashboard, seen from the dashboard's directory, is the path
\* the map was written to.
C10_MapBeforeDashboard ==
    \A f \in Dashboards :
        /\ MapPath(config) \in Written
        /\ Resolve(f.path, Between(f.content, IframeOpen, IframeClose)) \in Written
        /\ Resolve(f.path, Between(f.content, IframeOpen, IframeClose))
              = MapPath(config)

\* Both files are written.
C10_Witness ==
    /\ pc = "done"
    /\ DashboardPath(config) \in Written
    /\ MapPath(config) \in Written

====
